---- MODULE Spec2Model ----
(***************************************************************************)
(* GallupStopMotion: the five-button debounce firmware (ButtonsFive.ino)   *)
(* and the kiosk front end (StopMotionApp.jsx with lib/backend.js).        *)
(*                                                                         *)
(* Two programs, two groups of specifications over one set of variables:   *)
(*   SpecButton, SpecButtons : the firmware's setup() and loop()           *)
(*   SpecFrames, SpecRoll, SpecPlayback : the React component's handlers   *)
(* A specification leaves the other program's variables at their initial   *)
(* values.                                                                 *)
(***************************************************************************)
EXTENDS Integers, Sequences, FiniteSets, TLC

VARIABLES
    \* ---- firmware (ButtonsFive.ino) ----
    ms,          \* true milliseconds since setup(); millis() is ms modulo 2^w
    buttons,     \* Button buttons[BTN_COUNT]
    serialOut,   \* the lines Serial.println has written, oldest first
    \* history of the firmware's inputs and outputs (not program state)
    since,       \* per button: true ms at which the raw level last changed
    ep,          \* per button: the bounce episode since the button was idle
    presses,     \* raw HIGH->LOW changes in the order they were read
    emitted,     \* per line of serialOut: the press that produced it
    clean,       \* every raw level so far was held longer than the window
    changed,     \* per button: its raw level has changed since setup()
    \* ---- front end (StopMotionApp.jsx): React state ----
    streamReady, thumbnails, isCapturing, isPlaying, playbackSrc,
    autoplayBlocked, loadingPlayback, error,
    \* the browser and the backend
    fullscreen,  \* document.fullscreenElement is set
    exiting,     \* document.exitFullscreen() was called and has not acted yet
    dateNow,     \* the last value Date.now() returned
    nextId,      \* the id the backend gives the next stored frame
    vid,         \* the playback <video> that is mounted (playbackRef.current)
    \* handler invocations
    startup,     \* the mount effect that calls startFreshSession()
    caps,        \* handleCapture invocations, in the order they were made
    plays,       \* handlePlay invocations, in the order they were made
    undoFs,      \* handleUndo invocations waiting in ensureFS()
    resetFs,     \* handleResetAll invocations waiting in ensureFS()
    \* history of the front end (not program state)
    undos,       \* handleUndo invocations made
    resets,      \* handleResetAll invocations made
    resetCap,    \* the capture made right after a reset: its index, -1 just
                 \* after the reset, 0 otherwise
    lastNet      \* the last undo or reset: what the backend answered and what
                 \* backend.js made of it

fwVars == <<ms, buttons, serialOut, since, ep, presses, emitted, clean,
           changed>>

uiVars == <<streamReady, thumbnails, isCapturing, isPlaying, playbackSrc,
           autoplayBlocked, loadingPlayback, error>>

envVars == <<fullscreen, exiting, dateNow, nextId>>

runVars == <<startup, caps, plays, undoFs, resetFs>>

histVars == <<undos, resets, resetCap, lastNet>>

appVars == <<uiVars, envVars, runVars, histVars, vid>>

vars == <<fwVars, appVars>>

----------------------------------------------------------------------------
(* Firmware constants *)

HIGH == TRUE
LOW == FALSE

BTN_COUNT == 5
DEBOUNCE_MS == 25

\* unsigned long is 32 bits on the AVR; the model keeps the modular
\* arithmetic with a narrower counter.
MillisBits == 6
MillisMod == 2 ^ MillisBits

Btn == 0 .. (BTN_COUNT - 1)

command == [i \in Btn |->
              CASE i = 0 -> "capture"
                [] i = 1 -> "play"
                [] i = 2 -> "undo"
                [] i = 3 -> "reset"
                [] i = 4 -> "save"]

\* Horizons of the two firmware specifications, in ms.
MaxMs == 80
MaxMsPair == 27

\* The buttons the environment operates; the pins of the others stay
\* pulled up (HIGH).
OneWired == {0}
PairWired == {0, 2}

----------------------------------------------------------------------------
(* loop(): one pass over the buttons *)

millis(t) == t % MillisMod

\* (now - b.lastChangeMs) in signed arithmetic: negative after a wrap.
ElapsedSigned(now, last) == now - last

\* (now - b.lastChangeMs) in unsigned arithmetic
Elapsed(now, last) == (now - last) % MillisMod

\* A loop that does not restart the timer on a raw change.
NoteRawKeepTimer(b, raw, now) ==
    IF raw # b.lastRaw THEN [b EXCEPT !.lastRaw = raw] ELSE b

\* lines 46-50: a raw change restarts the debounce timer
NoteRaw(b, raw, now) ==
    IF raw # b.lastRaw
    THEN [b EXCEPT !.lastChangeMs = now, !.lastRaw = raw]
    ELSE b

\* A loop without the debounce timer.
AcceptsAtOnce(b, raw, now) == raw # b.stableState

\* A loop whose buttons share the debounce timers: a level is accepted when
\* any button's timer has run out.
AcceptsAnyTimer(b, raw, now) ==
    /\ raw # b.stableState
    /\ \E j \in Btn : Elapsed(now, buttons[j].lastChangeMs) >= DEBOUNCE_MS

\* A loop that waits for more than the window.
AcceptsLate(b, raw, now) ==
    Elapsed(now, b.lastChangeMs) > DEBOUNCE_MS /\ raw # b.stableState

\* line 53: the raw level is accepted as the debounced level
Accepts(b, raw, now) ==
    Elapsed(now, b.lastChangeMs) >= DEBOUNCE_MS /\ raw # b.stableState

\* lines 54-55
Accept(b, raw) ==
    [b EXCEPT !.lastStableState = b.stableState, !.stableState = raw]

\* A loop that prints on either edge of the debounced level.
PressEdgeAnyEdge(b) == b.lastStableState # b.stableState

\* line 59: the press edge
PressEdge(b) == b.lastStableState = HIGH /\ b.stableState = LOW

\* The body of the for loop for one button.
Poll(b, raw, now) ==
    LET b1 == NoteRaw(b, raw, now)
    IN  IF Accepts(b1, raw, now) THEN Accept(b1, raw) ELSE b1

\* A loop that repeats the command in every pass while the press is held.
PrintsWhileHeld(b, raw, now) ==
    LET b1 == NoteRaw(b, raw, now)
    IN  Elapsed(now, b1.lastChangeMs) >= DEBOUNCE_MS /\ raw = LOW

\* Whether the body prints the button's command.
Prints(b, raw, now) ==
    LET b1 == NoteRaw(b, raw, now)
    IN  Accepts(b1, raw, now) /\ PressEdge(Accept(b1, raw))

RECURSIVE Printed(_, _, _, _)
\* The commands printed by buttons i .. BTN_COUNT-1 of one pass, in order.
Printed(i, bs, raws, now) ==
    IF i >= BTN_COUNT THEN <<>>
    ELSE (IF Prints(bs[i], raws[i], now) THEN <<i>> ELSE <<>>)
         \o Printed(i + 1, bs, raws, now)

RECURSIVE Pressed(_, _, _)
\* The buttons whose raw level went HIGH -> LOW in one pass, in order.
Pressed(i, bs, raws) ==
    IF i >= BTN_COUNT THEN <<>>
    ELSE (IF bs[i].lastRaw = HIGH /\ raws[i] = LOW THEN <<i>> ELSE <<>>)
         \o Pressed(i + 1, bs, raws)

\* History of one button's bounce episode: started by a raw change while the
\* button is idle, rapid while its raw changes come less than the window
\* apart. An episode that is no longer rapid is forgotten.
NoEpisode == [rapid |-> FALSE, n |-> 0, tokens |-> 0]

EpNext(e, b, raw, held, printed) ==
    LET flip == raw # b.lastRaw
        idle == b.stableState = HIGH /\ b.lastRaw = HIGH
        e1 == IF ~flip THEN e
              ELSE IF e.rapid /\ held < DEBOUNCE_MS
              THEN [e EXCEPT !.n = IF e.n < 3 THEN e.n + 1 ELSE 3]
              ELSE IF idle THEN [rapid |-> TRUE, n |-> 1, tokens |-> 0]
              ELSE NoEpisode
    IN  IF e1.rapid /\ printed /\ e1.tokens < 2
        THEN [e1 EXCEPT !.tokens = e1.tokens + 1] ELSE e1

\* One pass of loop() at true time t, reading raws[i] from pin i.
Pass(t, raws) ==
    LET now == millis(t)
        out == Printed(0, buttons, raws, now)
        dn == Pressed(0, buttons, raws)
    IN  /\ ms' = t
        /\ buttons' = [i \in Btn |-> Poll(buttons[i], raws[i], now)]
        /\ serialOut' = serialOut \o [k \in 1 .. Len(out) |-> command[out[k]]]
        /\ since' = [i \in Btn |->
                       IF raws[i] # buttons[i].lastRaw THEN t ELSE since[i]]
        /\ ep' = [i \in Btn |->
                    EpNext(ep[i], buttons[i], raws[i], t - since[i],
                           Prints(buttons[i], raws[i], now))]
        /\ clean' = (clean /\ \A i \in Btn :
                        raws[i] # buttons[i].lastRaw =>
                            (t - since[i] > DEBOUNCE_MS \/ ~changed[i]))
        /\ changed' = [i \in Btn |->
                         changed[i] \/ raws[i] # buttons[i].lastRaw]
        /\ presses' = IF clean'
                      THEN presses \o [k \in 1 .. Len(dn) |->
                                         [btn |-> dn[k], at |-> t]]
                      ELSE <<>>
        /\ emitted' = IF clean'
                      THEN emitted \o [k \in 1 .. Len(out) |->
                                         [btn |-> out[k], at |-> since'[out[k]]]]
                      ELSE <<>>

\* loop() runs without delay: a pass takes microseconds, so millis() is the
\* same or one more than in the pass before.
Loop(wired, maxMs) ==
    \E dt \in {0, 1} : \E lows \in SUBSET wired :
        /\ ms + dt <= maxMs
        /\ Pass(ms + dt, [i \in Btn |-> IF i \in lows THEN LOW ELSE HIGH])

\* setup(): every button starts at the level read from its pin.
Setup(wired) ==
    \E lows \in SUBSET wired :
        /\ ms = 0
        /\ buttons = [i \in Btn |->
                        LET raw == IF i \in lows THEN LOW ELSE HIGH
                        IN  [stableState |-> raw, lastStableState |-> raw,
                             lastChangeMs |-> millis(0), lastRaw |-> raw]]
        /\ serialOut = <<>>
        /\ since = [i \in Btn |-> 0]
        /\ ep = [i \in Btn |-> NoEpisode]
        /\ presses = <<>>
        /\ emitted = <<>>
        /\ clean = TRUE
        /\ changed = [i \in Btn |-> FALSE]

----------------------------------------------------------------------------
(* Front end: values *)

\* thumbnails keeps at most this many entries (slice(0, 30))
MaxThumbs == 30

\* Invocations of each handler in the front end's specifications.
MaxCaptures == 2
MaxPlays == 2
\* handleUndo and handleResetAll invocations, together.
MaxEdits == 1
\* Captures of the film-roll specification, made one after the other.
MaxRollCaptures == 31
\* captures, and undo or reset clicks, against a failing backend
MaxNetCaptures == 1
MaxNetEdits == 2
\* captures and builds of the busy-flag specification
MaxBusyCaptures == 2
MaxBusyPlays == 1

\* A URL: whether it carries a scheme, whether its path starts with "/", and
\* the rest of it.
Url(scheme, slash, name) == [scheme |-> scheme, slash |-> slash, name |-> name]

\* The empty string, or no URL at all (undefined, null).
NoUrl == Url(FALSE, FALSE, <<>>)

\* backend.js resolveUrl with API_BASE empty (the Vite proxy): nothing gives
\* "", an absolute URL is kept, a relative one gets its leading "/".
resolveUrl(u) ==
    IF u = NoUrl THEN NoUrl
    ELSE IF u.scheme THEN u ELSE [u EXCEPT !.slash = TRUE]

\* URL.createObjectURL(blob) of capture k
BlobUrl(k) == Url(TRUE, FALSE, <<"blob", k>>)

\* the thumbnail_url the backend returns for the frame of capture k
ThumbUrl(k) == Url(FALSE, TRUE, <<"frames", k>>)

LocalId(stamp) == <<"local", stamp>>
BackendId(n) == <<"id", n>>

Take(s, n) == SubSeq(s, 1, IF Len(s) < n THEN Len(s) ELSE n)

\* A placeholder that is left out when the sequence is full.
WithPlaceholderIfRoom(prev, tempId, localUrl) ==
    IF Len(prev) >= MaxThumbs THEN prev
    ELSE <<[id |-> tempId, url |-> localUrl]>> \o prev

\* line 118: setThumbnails((prev) => [{id: tempId, url: localUrl}, ...prev].slice(0, 30))
WithPlaceholder(prev, tempId, localUrl) ==
    Take(<<[id |-> tempId, url |-> localUrl]>> \o prev, MaxThumbs)

\* lines 124-127: the confirmed frame goes to the front, the entries with the
\* placeholder's id are dropped
WithConfirmed(prev, id, resolved, tempId) ==
    Take(<<[id |-> id, url |-> resolved]>>
            \o SelectSeq(prev, LAMBDA t : t.id # tempId), MaxThumbs)

\* An undo that drops the oldest entry: prev.slice(0, -1).
WithoutLast(prev) ==
    IF prev = <<>> THEN <<>> ELSE SubSeq(prev, 1, Len(prev) - 1)

\* line 139: prev.slice(1)
WithoutFirst(prev) == IF prev = <<>> THEN <<>> ELSE Tail(prev)

NoId == LocalId(0)

\* useState("") of playbackSrc; a <video> whose src was not assigned
NoSrc == <<>>

\* No playback <video> is mounted, or the one that is has just been mounted:
\* its src attribute is not set (it plays its <source>, line 308) and it has
\* not ended.
NoVid == [src |-> NoSrc, ended |-> FALSE]

\* No undo or reset has reached the backend yet.
NoNet == [op |-> "none", statuses |-> <<>>, calls |-> <<>>,
          failed |-> FALSE, thrown |-> FALSE]

NewCap == [pc |-> "fs", tempId |-> NoId, out |-> ""]

\* A finished invocation: its locals are gone.
CapDone(c, out) == [c EXCEPT !.pc = "done", !.tempId = NoId, !.out = out]

\* What a finished capture did: "confirmed" (replaced by the backend's
\* frame), "kept" (the response had no thumbnail_url), "failed" (the upload
\* failed), "noblob".
PlacedFrame == {"confirmed", "kept", "failed"}

\* The build-mode controls are rendered (line 250).
BuildMode == ~isPlaying

\* line 277
CaptureEnabled == BuildMode /\ streamReady /\ ~isCapturing

\* line 259
PlayEnabled == BuildMode /\ ~loadingPlayback

----------------------------------------------------------------------------
(* Front end: the state after the component has mounted *)

Mounted ==
    /\ streamReady = FALSE /\ thumbnails = <<>> /\ isCapturing = FALSE
    /\ isPlaying = FALSE /\ playbackSrc = <<>> /\ autoplayBlocked = FALSE
    /\ loadingPlayback = FALSE /\ error = ""
    /\ fullscreen = FALSE /\ exiting = FALSE /\ dateNow = 0 /\ nextId = 1
    /\ startup = "reset" /\ caps = <<>> /\ plays = <<>>
    /\ undoFs = 0 /\ resetFs = 0
    /\ undos = 0 /\ resets = 0 /\ resetCap = 0 /\ lastNet = NoNet
    /\ vid = NoVid

----------------------------------------------------------------------------
(* Fullscreen: enterFullscreen, ensureFS and the fullscreenchange listeners *)

\* lines 27-39 after node.requestFullscreen() settled: granted, the document
\* is fullscreen (the fullscreenchange listeners of lines 44 and 212-218
\* change nothing then); refused, it stays as it is. needsFullscreen, which
\* only shows the prompt, is not modelled.
FsSettled(ok) == fullscreen' = (fullscreen \/ ok)

\* A tap anywhere (line 227) or on the prompt (line 241) while not fullscreen.
TapFullscreen ==
    /\ ~fullscreen
    /\ FsSettled(TRUE)
    /\ exiting' = FALSE
    /\ UNCHANGED <<streamReady, thumbnails, isCapturing, isPlaying,
                   playbackSrc, autoplayBlocked, loadingPlayback, error>>
    /\ UNCHANGED <<dateNow, nextId, runVars, histVars, fwVars>>
    /\ UNCHANGED vid

\* The document leaves fullscreen (ESC, or exitFullscreen() acting): lines 44
\* and 212-218.
FullscreenExit ==
    /\ fullscreen
    /\ fullscreen' = FALSE /\ exiting' = FALSE
    /\ isPlaying' = FALSE /\ playbackSrc' = <<>> /\ autoplayBlocked' = FALSE
    /\ UNCHANGED <<streamReady, thumbnails, isCapturing, loadingPlayback,
                   error>>
    /\ UNCHANGED <<dateNow, nextId, runVars, histVars, fwVars>>
    /\ vid' = NoVid

----------------------------------------------------------------------------
(* Mount effects *)

\* lines 65-82: getUserMedia resolves and the preview plays, or is refused
CameraStart ==
    /\ ~streamReady /\ error # "Camera access denied. Please allow webcam."
    /\ \/ streamReady' = TRUE /\ error' = error
       \/ streamReady' = FALSE
          /\ error' = "Camera access denied. Please allow webcam."
    /\ UNCHANGED <<thumbnails, isCapturing, isPlaying, playbackSrc,
                   autoplayBlocked, loadingPlayback>>
    /\ UNCHANGED <<envVars, runVars, histVars, fwVars>>
    /\ UNCHANGED vid

\* lines 55-62: startFreshSession() returned (it swallows every failure)
StartupDone ==
    /\ startup = "reset"
    /\ startup' = "done"
    /\ thumbnails' = <<>>
    /\ resetCap' = -1
    /\ UNCHANGED <<streamReady, isCapturing, isPlaying, playbackSrc,
                   autoplayBlocked, loadingPlayback, error>>
    /\ UNCHANGED <<envVars, caps, plays, undoFs, resetFs, undos, resets,
                   fwVars>>
    /\ UNCHANGED <<vid, lastNet>>

----------------------------------------------------------------------------
(* handleCapture, lines 94-134 *)

SetCap(k, c) == caps' = [caps EXCEPT ![k] = c]

\* lines 96-112, up to the await of canvas.toBlob. The button is enabled
\* only once the preview plays (streamReady), so the refs are set and the
\* video has its dimensions.
CaptureBegin(c) ==
    [c EXCEPT !.pc = "blob"]

\* History: the capture made right after a reset.
NoteCapture(k) ==
    resetCap' = IF resetCap = -1 THEN k ELSE 0

\* A click on the capture button.
CaptureClick(maxCaptures) ==
    /\ CaptureEnabled
    /\ Len(caps) < maxCaptures
    /\ LET k == Len(caps) + 1
       IN  /\ NoteCapture(k)
           /\ IF fullscreen
              THEN /\ caps' = Append(caps, CaptureBegin(NewCap))
                   /\ isCapturing' = TRUE
                   /\ error' = ""
              ELSE /\ caps' = Append(caps, NewCap)
                   /\ UNCHANGED <<isCapturing, error>>
    /\ UNCHANGED <<streamReady, thumbnails, isPlaying, playbackSrc,
                   autoplayBlocked, loadingPlayback>>
    /\ UNCHANGED <<envVars, startup, plays, undoFs, resetFs, undos, resets,
                   fwVars>>
    /\ UNCHANGED <<vid, lastNet>>

\* ensureFS() of a capture settled.
CaptureFsDone ==
    \E k \in 1 .. Len(caps) : \E ok \in BOOLEAN :
        /\ caps[k].pc = "fs"
        /\ FsSettled(ok)
        /\ SetCap(k, CaptureBegin(caps[k]))
        /\ isCapturing' = TRUE
        /\ error' = ""
        /\ UNCHANGED <<streamReady, thumbnails, isPlaying, playbackSrc,
                       autoplayBlocked, loadingPlayback>>
        /\ UNCHANGED <<exiting, dateNow, nextId, startup, plays, undoFs,
                       resetFs, histVars, fwVars>>
        /\ UNCHANGED vid

\* Date.now() returns the value it returned last or a later one (the first
\* reading is later than the page load).
Stamps == IF dateNow = 0 THEN {1} ELSE {dateNow, dateNow + 1}

\* lines 112-118: toBlob called back; with a blob the placeholder is shown
\* and the upload starts
BlobDone(blobs) ==
    \E k \in 1 .. Len(caps) : \E blob \in blobs :
        \E stamp \in Stamps :
        /\ caps[k].pc = "blob"
        /\ IF blob
           THEN /\ dateNow' = stamp
                /\ thumbnails' = WithPlaceholder(thumbnails, LocalId(stamp),
                                                 BlobUrl(k))
                /\ SetCap(k, [caps[k] EXCEPT !.pc = "upload",
                                             !.tempId = LocalId(stamp)])
                /\ UNCHANGED <<isCapturing, error>>
           ELSE /\ stamp = dateNow + 1
                /\ isCapturing' = FALSE
                /\ error' = "Failed to capture frame"
                /\ SetCap(k, CapDone(caps[k], "noblob"))
                /\ UNCHANGED <<dateNow, thumbnails>>
        /\ UNCHANGED <<streamReady, isPlaying, playbackSrc, autoplayBlocked,
                       loadingPlayback>>
        /\ UNCHANGED <<fullscreen, exiting, nextId, startup, plays, undoFs,
                       resetFs, histVars, fwVars>>
        /\ UNCHANGED vid

\* lines 121-128 and the finally: the backend stored the frame and answered
\* { id, thumbnail_url }
UploadConfirmed(k) ==
    /\ thumbnails' = WithConfirmed(thumbnails, BackendId(nextId),
                                   resolveUrl(ThumbUrl(k)), caps[k].tempId)
    /\ nextId' = nextId + 1
    /\ isCapturing' = FALSE
    /\ SetCap(k, CapDone(caps[k], "confirmed"))
    /\ UNCHANGED error

\* the backend stored the frame and answered without a thumbnail_url
UploadKept(k) ==
    /\ nextId' = nextId + 1
    /\ isCapturing' = FALSE
    /\ SetCap(k, CapDone(caps[k], "kept"))
    /\ UNCHANGED <<thumbnails, error>>

\* A catch that rolls the placeholder back.
UploadFailedRollsBack(k) ==
    /\ error' = "Upload failed"
    /\ isCapturing' = FALSE
    /\ thumbnails' = SelectSeq(thumbnails, LAMBDA t : t.id # caps[k].tempId)
    /\ SetCap(k, CapDone(caps[k], "failed"))
    /\ UNCHANGED nextId

\* lines 129-133: uploadFrame threw (network error or a status that is not
\* ok); the message is the exception's, "Upload failed: <status>" for a status
UploadFailed(k) ==
    /\ error' = "Upload failed"
    /\ isCapturing' = FALSE
    /\ SetCap(k, CapDone(caps[k], "failed"))
    /\ UNCHANGED <<thumbnails, nextId>>

UploadDone(answers) ==
    \E k \in 1 .. Len(caps) : \E answer \in answers :
        /\ caps[k].pc = "upload"
        /\ CASE answer = "thumbnail" -> UploadConfirmed(k)
             [] answer = "bare" -> UploadKept(k)
             [] answer = "failure" -> UploadFailed(k)
        /\ UNCHANGED <<streamReady, isPlaying, playbackSrc, autoplayBlocked,
                       loadingPlayback>>
        /\ UNCHANGED <<fullscreen, exiting, dateNow, startup, plays, undoFs,
                       resetFs, histVars, fwVars>>
        /\ UNCHANGED vid

Answers == {"thumbnail", "bare", "failure"}

----------------------------------------------------------------------------
(* backend.js: deleteLastFrame, resetAll, startFreshSession *)

\* What fetch() gives for a DELETE: the status of the response, or 0 when the
\* promise rejects (network error).
Statuses == {0, 200, 404, 500}

\* The backend answers every DELETE with success.
Succeeds == {200}

\* res.ok
Ok(status) == status >= 200 /\ status <= 299

\* lines 44-46: deleteLastFrame, given what fetch() gives. It throws only
\* when fetch rejects: the status is not looked at.
deleteLastFrame(s1) ==
    [op |-> "undo", statuses |-> <<s1>>, calls |-> <<"session">>,
     failed |-> ~Ok(s1), thrown |-> s1 = 0]

\* A resetAll without the fallback of lines 58-61.
resetAllNoFallback(s1, s2) ==
    [op |-> "reset", statuses |-> <<s1>>, calls |-> <<"session">>,
     failed |-> ~Ok(s1) /\ s1 # 404, thrown |-> ~Ok(s1) /\ s1 # 404]

\* lines 55-65: resetAll, given what fetch() gives for the session-scoped
\* DELETE (s1) and for the fallback without the session parameter (s2)
resetAll(s1, s2) ==
    LET fallback == s1 = 404
        res == IF fallback THEN s2 ELSE s1
        throws == ~Ok(res) /\ res # 404
    IN  [op |-> "reset",
         statuses |-> IF fallback THEN <<s1, s2>> ELSE <<s1>>,
         calls |-> IF fallback THEN <<"session", "global">>
                   ELSE <<"session">>,
         failed |-> throws, thrown |-> throws]

\* lines 68-74: startFreshSession catches whatever resetAll throws
startFreshSession(s1, s2) ==
    [resetAll(s1, s2) EXCEPT !.thrown = FALSE]

----------------------------------------------------------------------------
(* handleUndo, lines 137-141, and handleResetAll, lines 144-153 *)

\* lines 139-140: the first entry is dropped, then deleteLastFrame() is
\* awaited and whatever it throws is caught and ignored
UndoApply(statuses) ==
    \E s1 \in statuses :
        /\ thumbnails' = WithoutFirst(thumbnails)
        /\ resetCap' = 0
        /\ lastNet' = [deleteLastFrame(s1) EXCEPT !.thrown = FALSE]

UndoClick(maxEdits, statuses) ==
    /\ BuildMode
    /\ undos + resets < maxEdits
    /\ undos' = undos + 1
    /\ IF fullscreen
       THEN UndoApply(statuses) /\ UNCHANGED undoFs
       ELSE undoFs' = undoFs + 1 /\ UNCHANGED <<thumbnails, resetCap, lastNet>>
    /\ UNCHANGED <<streamReady, isCapturing, isPlaying, playbackSrc,
                   autoplayBlocked, loadingPlayback, error>>
    /\ UNCHANGED <<envVars, startup, caps, plays, resetFs, resets, fwVars>>
    /\ UNCHANGED vid

UndoFsDone(statuses) ==
    \E ok \in BOOLEAN :
        /\ undoFs > 0
        /\ undoFs' = undoFs - 1
        /\ FsSettled(ok)
        /\ UndoApply(statuses)
        /\ UNCHANGED <<streamReady, isCapturing, isPlaying, playbackSrc,
                       autoplayBlocked, loadingPlayback, error>>
        /\ UNCHANGED <<exiting, dateNow, nextId, startup, caps, plays,
                       resetFs, undos, resets, fwVars>>
        /\ UNCHANGED vid

\* lines 146-152: the sequence is emptied, then startFreshSession() is
\* awaited; "Reset failed" is set when it throws
ResetApply(statuses) ==
    \E s1, s2 \in statuses :
        LET done == startFreshSession(s1, s2)
        IN  /\ thumbnails' = <<>>
            /\ resetCap' = -1
            /\ plays' = [k \in 1 .. Len(plays) |->
                           IF plays[k].pc = "build"
                           THEN [plays[k] EXCEPT !.stale = TRUE]
                           ELSE plays[k]]
            /\ error' = IF done.thrown THEN "Reset failed" ELSE error
            /\ lastNet' = done

ResetClick(maxEdits, statuses) ==
    /\ BuildMode
    /\ undos + resets < maxEdits
    /\ resets' = resets + 1
    /\ IF fullscreen
       THEN ResetApply(statuses) /\ UNCHANGED resetFs
       ELSE /\ resetFs' = resetFs + 1
            /\ UNCHANGED <<thumbnails, resetCap, plays, error, lastNet>>
    /\ UNCHANGED <<streamReady, isCapturing, isPlaying, playbackSrc,
                   autoplayBlocked, loadingPlayback>>
    /\ UNCHANGED <<envVars, startup, caps, undoFs, undos, fwVars>>
    /\ UNCHANGED vid

ResetFsDone(statuses) ==
    \E ok \in BOOLEAN :
        /\ resetFs > 0
        /\ resetFs' = resetFs - 1
        /\ FsSettled(ok)
        /\ ResetApply(statuses)
        /\ UNCHANGED <<streamReady, isCapturing, isPlaying, playbackSrc,
                       autoplayBlocked, loadingPlayback>>
        /\ UNCHANGED <<exiting, dateNow, nextId, startup, caps, undoFs,
                       undos, resets, fwVars>>
        /\ UNCHANGED vid

----------------------------------------------------------------------------
(* Specification of the film roll: capture, undo, reset *)

FramesClickCapture == CaptureClick(MaxCaptures)
FramesBlobDone == BlobDone(BOOLEAN)
FramesUploadDone == UploadDone(Answers)
FramesClickUndo == UndoClick(MaxEdits, Succeeds)
FramesUndoFsDone == UndoFsDone(Succeeds)
FramesClickReset == ResetClick(MaxEdits, Succeeds)
FramesResetFsDone == ResetFsDone(Succeeds)

FramesNext ==
    \/ TapFullscreen
    \/ FullscreenExit
    \/ CameraStart
    \/ StartupDone
    \/ FramesClickCapture
    \/ CaptureFsDone
    \/ FramesBlobDone
    \/ FramesUploadDone
    \/ FramesClickUndo
    \/ FramesUndoFsDone
    \/ FramesClickReset
    \/ FramesResetFsDone

InitFrames == Setup({}) /\ Mounted

SpecFrames == InitFrames /\ [][FramesNext]_vars

\* The mount effects have completed: the preview plays and the startup
\* reset has returned; fs tells whether the kiosk is in fullscreen.
Running(fs) ==
    /\ streamReady = TRUE /\ thumbnails = <<>> /\ isCapturing = FALSE
    /\ isPlaying = FALSE /\ playbackSrc = <<>> /\ autoplayBlocked = FALSE
    /\ loadingPlayback = FALSE /\ error = ""
    /\ fullscreen = fs /\ exiting = FALSE /\ dateNow = 0 /\ nextId = 1
    /\ startup = "done" /\ caps = <<>> /\ plays = <<>>
    /\ undoFs = 0 /\ resetFs = 0
    /\ undos = 0 /\ resets = 0 /\ resetCap = 0 /\ lastNet = NoNet
    /\ vid = NoVid

----------------------------------------------------------------------------
(* Specification of K captures made one after the other, then undo: the      *)
(* kiosk is in fullscreen and the backend confirms every upload.            *)

RollClickCapture == CaptureClick(MaxRollCaptures)
RollBlobDone == BlobDone({TRUE})
RollUploadDone == UploadDone({"thumbnail"})
RollClickUndo == UndoClick(MaxEdits, Succeeds)

RollNext ==
    \/ RollClickCapture
    \/ RollBlobDone
    \/ RollUploadDone
    \/ RollClickUndo

InitRoll == Setup({}) /\ Running(TRUE)

SpecRoll == InitRoll /\ [][RollNext]_vars

\* The same with Reset All.
RollClickReset == ResetClick(MaxEdits, Succeeds)

RollResetNext ==
    \/ RollNext
    \/ RollClickReset

SpecRollReset == InitRoll /\ [][RollResetNext]_vars

----------------------------------------------------------------------------
(* Specification of capture, undo and reset against a backend whose DELETE  *)
(* requests may fail: every status of Statuses can come back.               *)

NetClickCapture == CaptureClick(MaxNetCaptures)
NetBlobDone == BlobDone({TRUE})
NetUploadDone == UploadDone(Answers)
NetClickUndo == UndoClick(MaxNetEdits, Statuses)
NetUndoFsDone == UndoFsDone(Statuses)
NetClickReset == ResetClick(MaxNetEdits, Statuses)
NetResetFsDone == ResetFsDone(Statuses)

NetNext ==
    \/ TapFullscreen
    \/ FullscreenExit
    \/ NetClickCapture
    \/ CaptureFsDone
    \/ NetBlobDone
    \/ NetUploadDone
    \/ NetClickUndo
    \/ NetUndoFsDone
    \/ NetClickReset
    \/ NetResetFsDone

InitNet == Setup({}) /\ Running(FALSE)

SpecNet == InitNet /\ [][NetNext]_vars

----------------------------------------------------------------------------
(* handlePlay, lines 156-208, and the playback <video>, lines 288-322 *)

\* The video_url the backend may return for the k-th build: "/videos/k",
\* "videos/k" or "http://host/videos/k".
VideoUrls(k) ==
    {Url(FALSE, TRUE, <<"videos", k>>), Url(FALSE, FALSE, <<"videos", k>>),
     Url(TRUE, FALSE, <<"videos", k>>)}

\* No answer: fetch rejected, or the status is not ok.
NoAns == [ok |-> FALSE, url |-> NoUrl]

\* What POST /api/video gives for the k-th build: no answer, or a JSON body
\* whose video_url is a URL, or is missing or empty.
BuildAnswers(k) ==
    {NoAns} \cup {[ok |-> TRUE, url |-> u] : u \in VideoUrls(k) \cup {NoUrl}}

\* A handlePlay that takes every answer with an ok status.
BuildThrowsOnStatus(ans) == ~ans.ok

\* backend.js line 50 and line 164: buildVideo() throws, or handlePlay
\* throws "No video_url returned"
BuildThrows(ans) == ~ans.ok \/ ans.url = NoUrl

\* line 167: resolveUrl(video_url) + `?t=${Date.now()}`
CacheBusted(videoUrl, stamp) == <<resolveUrl(videoUrl), "?t=", stamp>>

\* A handlePlay invocation: where it is, its abs and how it ended; stale and
\* retry are history (a reset overtook its build; it was made after a failed
\* build).
NewPlay == [pc |-> "fs", abs |-> NoSrc, out |-> "",
            stale |-> FALSE, retry |-> FALSE]

\* A finished invocation: its locals are gone. It ended "rejected" (the build
\* request failed), "nourl" (the answer had no video_url), "failed" (the
\* player was not ready or could not load), "started" or "blocked" (what
\* vid.play() did).
PlayDone(p, out) == [p EXCEPT !.pc = "done", !.abs = NoSrc, !.out = out]

\* A handlePlay invocation whose build request failed.
BuildFailed(p) == p.pc = "done" /\ p.out \in {"rejected", "nourl"}

SetPlay(k, q) == plays' = [plays EXCEPT ![k] = q]

\* lines 158-163, up to the await of buildVideo(): POST /api/video is sent
PlayBegin ==
    /\ loadingPlayback' = TRUE
    /\ autoplayBlocked' = FALSE
    /\ error' = ""

\* A catch without the finally: the build stays marked as running.
PlayCatchKeepsBusy ==
    /\ error' = "Playback failed"
    /\ isPlaying' = FALSE
    /\ playbackSrc' = NoSrc
    /\ exiting' = (exiting \/ fullscreen)
    /\ loadingPlayback' = loadingPlayback
    /\ vid' = NoVid

\* A catch that hides the player and keeps its source.
PlayCatchKeepsSrc ==
    /\ error' = "Playback failed"
    /\ isPlaying' = FALSE
    /\ playbackSrc' = playbackSrc
    /\ exiting' = (exiting \/ fullscreen)
    /\ loadingPlayback' = FALSE
    /\ vid' = NoVid

\* lines 199-207: catch and finally
PlayCatch ==
    /\ error' = "Playback failed"
    /\ isPlaying' = FALSE
    /\ playbackSrc' = NoSrc
    /\ exiting' = (exiting \/ fullscreen)
    /\ loadingPlayback' = FALSE
    /\ vid' = NoVid

\* A handlePlay without the finally after vid.play().
PlayFinallyKeepsBusy(started) ==
    /\ autoplayBlocked' = (autoplayBlocked \/ ~started)
    /\ loadingPlayback' = loadingPlayback

\* A handlePlay that does not notice a rejected vid.play().
PlayFinallyIgnoresBlock(started) ==
    /\ autoplayBlocked' = autoplayBlocked
    /\ loadingPlayback' = FALSE

\* line 198 and the finally: vid.play() settled
PlayFinally(started) ==
    /\ autoplayBlocked' = (autoplayBlocked \/ ~started)
    /\ loadingPlayback' = FALSE

\* A click on the Play button.
PlayClick(maxPlays) ==
    /\ PlayEnabled
    /\ Len(plays) < maxPlays
    /\ LET p == [NewPlay EXCEPT
                    !.retry = \E j \in 1 .. Len(plays) : BuildFailed(plays[j])]
       IN  IF fullscreen
           THEN /\ plays' = Append(plays, [p EXCEPT !.pc = "build"])
                /\ PlayBegin
           ELSE /\ plays' = Append(plays, p)
                /\ UNCHANGED <<loadingPlayback, autoplayBlocked, error>>
    /\ UNCHANGED <<streamReady, thumbnails, isCapturing, isPlaying,
                   playbackSrc>>
    /\ UNCHANGED <<envVars, startup, caps, undoFs, resetFs, histVars,
                   fwVars>>
    /\ UNCHANGED vid

\* ensureFS() of a handlePlay settled.
PlayFsDone ==
    \E k \in 1 .. Len(plays) : \E ok \in BOOLEAN :
        /\ plays[k].pc = "fs"
        /\ FsSettled(ok)
        /\ SetPlay(k, [plays[k] EXCEPT !.pc = "build"])
        /\ PlayBegin
        /\ UNCHANGED <<streamReady, thumbnails, isCapturing, isPlaying,
                       playbackSrc>>
        /\ UNCHANGED <<exiting, dateNow, nextId, startup, caps, undoFs,
                       resetFs, histVars, fwVars>>
        /\ UNCHANGED vid

\* lines 163-183: the build answered. With a video_url the player is shown:
\* React mounts a <video> for the new playbackSrc (its key), and when a
\* <video> is already there, lines 178-183 run at once on that one, which the
\* new key then replaces.
BuildDone ==
    \E k \in 1 .. Len(plays) : \E ans \in BuildAnswers(k) :
        \E stamp \in Stamps :
        /\ plays[k].pc = "build"
        /\ IF BuildThrows(ans)
           THEN /\ PlayCatch
                /\ SetPlay(k, PlayDone(plays[k], IF ans.ok THEN "nourl"
                                                  ELSE "rejected"))
                /\ UNCHANGED dateNow
           ELSE LET abs == CacheBusted(ans.url, stamp)
                IN  /\ dateNow' = stamp
                    /\ playbackSrc' = abs
                    /\ isPlaying' = TRUE
                    /\ vid' = IF isPlaying /\ playbackSrc = abs
                              THEN [src |-> abs, ended |-> FALSE]
                              ELSE NoVid
                    /\ SetPlay(k, [plays[k] EXCEPT
                                      !.pc = IF isPlaying THEN "meta"
                                             ELSE "mount",
                                      !.abs = abs])
                    /\ UNCHANGED <<exiting, error, loadingPlayback>>
        /\ UNCHANGED <<streamReady, thumbnails, isCapturing, autoplayBlocked>>
        /\ UNCHANGED <<fullscreen, nextId, startup, caps, undoFs, resetFs,
                       histVars, fwVars>>

\* lines 174-183: the wait for the <video> to mount ended: while the player
\* is shown the <video> that is mounted gets this invocation's abs as its src
\* and loads it, otherwise "Player not ready" is thrown
MountDone ==
    \E k \in 1 .. Len(plays) :
        /\ plays[k].pc = "mount"
        /\ IF isPlaying
           THEN /\ SetPlay(k, [plays[k] EXCEPT !.pc = "meta"])
                /\ vid' = [src |-> plays[k].abs, ended |-> FALSE]
                /\ UNCHANGED <<error, isPlaying, playbackSrc, exiting,
                               loadingPlayback>>
           ELSE /\ PlayCatch
                /\ SetPlay(k, PlayDone(plays[k], "failed"))
        /\ UNCHANGED <<streamReady, thumbnails, isCapturing, autoplayBlocked>>
        /\ UNCHANGED <<fullscreen, dateNow, nextId, startup, caps, undoFs,
                       resetFs, histVars, fwVars>>

\* lines 186-195: loadedmetadata, or error (which the element's onError of
\* lines 299-306 handles first while the element is mounted)
MetaDone ==
    \E k \in 1 .. Len(plays) : \E loaded \in BOOLEAN :
        /\ plays[k].pc = "meta"
        /\ IF loaded
           THEN /\ SetPlay(k, [plays[k] EXCEPT !.pc = "play"])
                /\ UNCHANGED <<error, isPlaying, playbackSrc, exiting,
                               loadingPlayback, autoplayBlocked, vid>>
           ELSE /\ PlayCatch
                /\ autoplayBlocked' = (autoplayBlocked /\ ~isPlaying)
                /\ SetPlay(k, PlayDone(plays[k], "failed"))
        /\ UNCHANGED <<streamReady, thumbnails, isCapturing>>
        /\ UNCHANGED <<fullscreen, dateNow, nextId, startup, caps, undoFs,
                       resetFs, histVars, fwVars>>

\* line 198 and the finally
PlayCallDone ==
    \E k \in 1 .. Len(plays) : \E started \in BOOLEAN :
        /\ plays[k].pc = "play"
        /\ PlayFinally(started)
        /\ SetPlay(k, PlayDone(plays[k], IF started THEN "started"
                                          ELSE "blocked"))
        /\ UNCHANGED <<streamReady, thumbnails, isCapturing, isPlaying,
                       playbackSrc, error>>
        /\ UNCHANGED <<envVars, startup, caps, undoFs, resetFs, histVars,
                       fwVars>>
        /\ UNCHANGED vid

\* line 298: the video played to its end; exitFullscreen() acts only in
\* fullscreen (otherwise its promise rejects and nothing follows)
VideoEnded ==
    /\ isPlaying /\ ~vid.ended
    /\ vid' = [vid EXCEPT !.ended = TRUE]
    /\ exiting' = (exiting \/ fullscreen)
    /\ UNCHANGED <<uiVars, fullscreen, dateNow, nextId, runVars, histVars,
                   fwVars>>

\* An onError that only reports the error.
VideoErrorKeepsPlayer ==
    /\ isPlaying
    /\ \A k \in 1 .. Len(plays) : plays[k].pc # "meta"
    /\ error' = "Video playback error"
    /\ UNCHANGED <<streamReady, thumbnails, isCapturing, loadingPlayback,
                   isPlaying, playbackSrc, autoplayBlocked, vid>>
    /\ UNCHANGED <<envVars, runVars, histVars, fwVars>>

\* lines 299-306: the mounted <video> reports an error while no handlePlay
\* waits for its metadata
VideoError ==
    /\ isPlaying
    /\ \A k \in 1 .. Len(plays) : plays[k].pc # "meta"
    /\ error' = "Video playback error"
    /\ isPlaying' = FALSE
    /\ playbackSrc' = NoSrc
    /\ autoplayBlocked' = FALSE
    /\ vid' = NoVid
    /\ UNCHANGED <<streamReady, thumbnails, isCapturing, loadingPlayback>>
    /\ UNCHANGED <<envVars, runVars, histVars, fwVars>>

\* lines 311-322: Tap to Play; play() resolves (and restarts a video that
\* had ended) or rejects
TapToPlay ==
    \E started \in BOOLEAN :
        /\ isPlaying /\ autoplayBlocked
        /\ autoplayBlocked' = ~started
        /\ vid' = IF started THEN [vid EXCEPT !.ended = FALSE] ELSE vid
        /\ UNCHANGED <<streamReady, thumbnails, isCapturing, isPlaying,
                       playbackSrc, loadingPlayback, error>>
        /\ UNCHANGED <<envVars, runVars, histVars, fwVars>>

----------------------------------------------------------------------------
(* Specification of build and playback *)

PlaybackClickPlay == PlayClick(MaxPlays)

PlaybackNext ==
    \/ TapFullscreen
    \/ FullscreenExit
    \/ PlaybackClickPlay
    \/ PlayFsDone
    \/ BuildDone
    \/ MountDone
    \/ MetaDone
    \/ PlayCallDone
    \/ VideoEnded
    \/ VideoError
    \/ TapToPlay

InitPlayback == Setup({}) /\ Running(FALSE)

SpecPlayback == InitPlayback /\ [][PlaybackNext]_vars

\* Build and playback where what the program waits for does happen: a
\* pending exitFullscreen() acts and every promise a handlePlay awaits
\* settles. What the user does (clicks, taps, ESC) is left free.
ExitActs == exiting /\ FullscreenExit

SpecPlaybackLive ==
    /\ SpecPlayback
    /\ WF_vars(ExitActs)
    /\ WF_vars(PlayFsDone) /\ WF_vars(BuildDone) /\ WF_vars(MountDone)
    /\ WF_vars(MetaDone) /\ WF_vars(PlayCallDone)

----------------------------------------------------------------------------
(* Specification of the busy flags: captures and builds together, where     *)
(* what a handler awaits does settle (ensureFS(), toBlob, uploadFrame(),    *)
(* buildVideo(), the wait for the <video>, its metadata, vid.play()).       *)
(* What the user does is left free.                                         *)

\* In one run the user makes captures or builds, not both: neither handler
\* touches the other one's flag.
BusyClickCapture == plays = <<>> /\ CaptureClick(MaxBusyCaptures)
BusyBlobDone == BlobDone(BOOLEAN)
BusyUploadDone == UploadDone(Answers)
BusyClickPlay == caps = <<>> /\ PlayClick(MaxBusyPlays)

BusyNext ==
    \/ TapFullscreen
    \/ FullscreenExit
    \/ BusyClickCapture
    \/ CaptureFsDone
    \/ BusyBlobDone
    \/ BusyUploadDone
    \/ BusyClickPlay
    \/ PlayFsDone
    \/ BuildDone
    \/ MountDone
    \/ MetaDone
    \/ PlayCallDone
    \/ VideoEnded
    \/ VideoError
    \/ TapToPlay

InitBusy == Setup({}) /\ Running(FALSE)

SpecBusy ==
    /\ InitBusy /\ [][BusyNext]_vars
    /\ WF_vars(CaptureFsDone) /\ WF_vars(BusyBlobDone)
    /\ WF_vars(BusyUploadDone)
    /\ WF_vars(PlayFsDone) /\ WF_vars(BuildDone) /\ WF_vars(MountDone)
    /\ WF_vars(MetaDone) /\ WF_vars(PlayCallDone)

\* Build and playback with Reset All.
PlaybackClickReset == ResetClick(MaxEdits, Succeeds)
PlaybackResetFsDone == ResetFsDone(Succeeds)

PlaybackResetNext ==
    \/ PlaybackNext
    \/ PlaybackClickReset
    \/ PlaybackResetFsDone

SpecPlaybackReset == InitPlayback /\ [][PlaybackResetNext]_vars

----------------------------------------------------------------------------
(* Specifications of the firmware *)

LoopOne == Loop(OneWired, MaxMs) /\ UNCHANGED appVars

InitButton == Setup(OneWired) /\ Mounted

SpecButton == InitButton /\ [][LoopOne]_vars

LoopPair == Loop(PairWired, MaxMsPair) /\ UNCHANGED appVars

InitButtons == Setup(PairWired) /\ Mounted

SpecButtons == InitButtons /\ [][LoopPair]_vars

----------------------------------------------------------------------------
(* Firmware claims *)

\* The lines of out that button i printed.
Count(i, out) == Len(SelectSeq(out, LAMBDA c : c = command[i]))

HeldMs(i) == ms - since[i]

\* C2: a burst of raw changes of one button that starts from idle, whose
\* consecutive changes are less than DEBOUNCE_MS apart and that ends with the
\* raw level LOW for at least DEBOUNCE_MS, has printed exactly one command.
C2_OneTokenPerBurst ==
    \A i \in Btn :
        (ep[i].rapid /\ buttons[i].lastRaw = LOW /\ HeldMs(i) >= DEBOUNCE_MS)
            => ep[i].tokens = 1

C2_Witness ==
    \E i \in Btn :
        /\ ep[i].rapid /\ ep[i].n >= 3
        /\ buttons[i].lastRaw = LOW /\ HeldMs(i) >= DEBOUNCE_MS
        /\ ep[i].tokens = 1

\* Presses of button i read so far (while every level was held long enough).
PressesOf(i) == Len(SelectSeq(presses, LAMBDA p : p.btn = i))

\* A press that has been read but not yet held for the window.
Pending(i) ==
    IF changed[i] /\ buttons[i].lastRaw = LOW /\ HeldMs(i) < DEBOUNCE_MS
    THEN 1 ELSE 0

OnePerPress ==
    /\ Len(emitted) = Len(serialOut)
    /\ \A k \in 1 .. Len(emitted) : serialOut[k] = command[emitted[k].btn]
    /\ \A i \in Btn : Count(i, serialOut) = PressesOf(i) - Pending(i)

C4_PressEdgeOnly ==
    [][\A i \in Btn :
          /\ Count(i, serialOut') # Count(i, serialOut) =>
                /\ Count(i, serialOut') = Count(i, serialOut) + 1
                /\ buttons[i].stableState = HIGH
                /\ buttons'[i].stableState = LOW
          /\ buttons'[i].stableState # buttons[i].stableState =>
                /\ since'[i] = since[i]
                /\ ms' - since[i] >= DEBOUNCE_MS
                /\ buttons'[i].lastRaw = buttons'[i].stableState]_vars

\* a press was printed and, later, a release accepted without printing
C4_Witness ==
    \E i \in Btn :
        /\ Count(i, serialOut) = 1
        /\ buttons[i].stableState = HIGH
        /\ buttons[i].lastStableState = LOW

----------------------------------------------------------------------------
(* Front-end claims *)

\* The builds awaiting the backend's answer.
BuildsInFlight == {k \in 1 .. Len(plays) : plays[k].pc = "build"}

\* C1: at most one build request is in flight at any time.
C1_OneBuildInFlight == Cardinality(BuildsInFlight) <= 1

\* The capture whose image a frame of the sequence shows.
CapOf(f) == f.url.name[2]

CapsOf(seq) == [i \in 1 .. Len(seq) |-> CapOf(seq[i])]

\* hi, hi-1, ..., lo
Descending(hi, lo) == [i \in 1 .. (hi - lo + 1) |-> hi - i + 1]

\* times handleUndo has shortened the sequence
Undone == undos - undoFs

\* The K handleCapture invocations made so far have all been confirmed by the
\* backend and nothing has been undone or reset.
ConsecutiveOk(K) ==
    /\ Len(caps) = K
    /\ \A k \in 1 .. K : caps[k].pc = "done" /\ caps[k].out = "confirmed"
    /\ undos = 0 /\ resets = 0

UndoRemovesFirst ==
    /\ thumbnails' = SubSeq(thumbnails, 2, Len(thumbnails))
    /\ Len(thumbnails') = IF thumbnails = <<>> THEN 0 ELSE Len(thumbnails) - 1
    /\ error' = error

\* C5 as stated: after K captures made and confirmed one after the other,
\* handleUndo removes the K-th frame and leaves frames K-1, ..., 1, in that
\* order; on an empty sequence it leaves it empty and sets no error.
C5_UndoLeavesAllEarlier ==
    [][Undone' = Undone + 1 =>
          /\ UndoRemovesFirst
          /\ \A K \in 1 .. Len(caps) :
                ConsecutiveOk(K) =>
                    /\ CapOf(Head(thumbnails)) = K
                    /\ CapsOf(thumbnails') = Descending(K - 1, 1)]_vars

\* C5 as amended: handleUndo removes the K-th frame and leaves the earlier
\* frames the sequence still holds, in their order: frames K-1, ..., 1 for
\* K <= MaxThumbs, frames K-1, ..., K-MaxThumbs+1 beyond.
C5_UndoRemovesNewest ==
    [][Undone' = Undone + 1 =>
          /\ UndoRemovesFirst
          /\ \A K \in 1 .. Len(caps) :
                ConsecutiveOk(K) =>
                    /\ CapOf(Head(thumbnails)) = K
                    /\ CapsOf(thumbnails') =
                          Descending(K - 1,
                                     IF K <= MaxThumbs THEN 1
                                     ELSE K - MaxThumbs + 1)]_vars

\* undo after three confirmed captures has left the first two
C5_Witness ==
    /\ Undone = 1
    /\ Len(caps) = 3
    /\ \A k \in 1 .. 3 : caps[k].out = "confirmed"
    /\ CapsOf(thumbnails) = <<2, 1>>

\* No handler has work left.
Quiet ==
    /\ startup = "done"
    /\ \A k \in 1 .. Len(caps) : caps[k].pc = "done"
    /\ undoFs = 0 /\ resetFs = 0

\* C6: after a reset followed immediately by one capture that placed its
\* frame, the sequence holds exactly one frame once every request has
\* completed.
C6_OneFrameAfterReset ==
    (resetCap >= 1 /\ Quiet /\ caps[resetCap].out \in PlacedFrame)
        => Len(thumbnails) = 1

\* The build-mode controls are shown and no build is running.
Idle == ~isPlaying /\ ~loadingPlayback /\ playbackSrc = NoSrc

\* C7: when a build request fails, the controller is Idle with the error
\* set, and the Play button accepts the next request.
C7_BuildFailureReturnsToIdle ==
    [][\A k \in 1 .. Len(plays) :
          (plays[k].pc = "build" /\ BuildFailed(plays'[k])) =>
              /\ Idle'
              /\ error' = "Playback failed"
              /\ PlayEnabled']_vars

\* a request made after a failed build has sent its POST /api/video
C7_Witness ==
    \E k \in 1 .. Len(plays) :
        plays[k].retry /\ plays[k].pc = "build" /\ loadingPlayback

\* C8: the response of a build that a reset has overtaken is discarded: the
\* player is never given its video.
C8_ResetDiscardsBuild ==
    \A k \in 1 .. Len(plays) : plays[k].stale => plays[k].abs = NoSrc

\* C9: once every upload has completed, the frames are in capture order,
\* most recent first, whatever the order of the responses.
C9_CaptureOrder ==
    Quiet => \A p, q \in 1 .. Len(thumbnails) :
                p < q => CapOf(thumbnails[p]) > CapOf(thumbnails[q])

\* Where capture k's placeholder is in seq (0: nowhere).
PlaceOf(k, seq) ==
    IF \E i \in 1 .. Len(seq) : seq[i].url = BlobUrl(k)
    THEN CHOOSE i \in 1 .. Len(seq) : seq[i].url = BlobUrl(k)
    ELSE 0

\* C10: the placeholder goes to the front of the sequence when the upload
\* starts; when the upload fails the error is set and the sequence, the
\* placeholder included, is left as it is.
C10_FailedUploadKeepsPlaceholder ==
    [][\A k \in 1 .. Len(caps) :
          /\ (caps[k].pc = "blob" /\ caps'[k].pc = "upload") =>
                /\ PlaceOf(k, thumbnails') = 1
                /\ Tail(thumbnails') = Take(thumbnails, MaxThumbs - 1)
          /\ (caps[k].pc = "upload" /\ caps'[k].out = "failed") =>
                /\ error' # ""
                /\ thumbnails' = thumbnails
                /\ PlaceOf(k, thumbnails') = PlaceOf(k, thumbnails)]_vars

\* an upload has failed and its placeholder is still in the sequence
C10_Witness ==
    \E k \in 1 .. Len(caps) :
        /\ caps[k].out = "failed"
        /\ PlaceOf(k, thumbnails) >= 1
        /\ error = "Upload failed"

----------------------------------------------------------------------------
(* Playback claims *)

\* The locator the mounted <video> plays: its src attribute once one was
\* assigned (line 182), its <source> (line 308) until then.
Played == IF vid.src # NoSrc THEN vid.src ELSE playbackSrc

\* The build whose video_url a locator carries.
BuildOf(abs) == abs[1].name[2]

\* A locator made of the k-th build's video_url: fully qualified, with the
\* cache-busting parameter.
LocatorOf(abs, k, stamp) ==
    /\ abs[1].name = <<"videos", k>>
    /\ abs[1].scheme \/ abs[1].slash
    /\ abs[2] = "?t=" /\ abs[3] = stamp

\* C11: when a build succeeds the player is shown with the resolved,
\* cache-busted locator of that build's video_url, and the <video> never
\* plays the locator of an earlier build than the one whose success was the
\* last to show the player.
C11_PlaysNewestBuild ==
    [][/\ \A k \in 1 .. Len(plays) :
            (plays[k].pc = "build" /\ plays'[k].pc \in {"mount", "meta"}) =>
                /\ isPlaying'
                /\ playbackSrc' = plays'[k].abs
                /\ LocatorOf(playbackSrc', k, dateNow')
       /\ isPlaying' => BuildOf(Played') >= BuildOf(playbackSrc')]_vars

\* A handlePlay invocation is still running.
PlayRunning == \E k \in 1 .. Len(plays) : plays[k].pc # "done"

\* C12: a playback error (the <video> reports an error, the player is not
\* ready, the metadata cannot be loaded) leaves the controller not playing,
\* without a playbackSrc and with the error set; it is marked as building
\* only as long as a handlePlay is still running.
C12_PlaybackErrorLeavesPlaying ==
    [][(\/ \E k \in 1 .. Len(plays) :
              plays[k].pc \in {"mount", "meta"} /\ plays'[k].pc = "done"
        \/ isPlaying /\ error' = "Video playback error" /\ error' # error)
       => /\ ~isPlaying' /\ playbackSrc' = NoSrc /\ error' # ""
          /\ loadingPlayback' => PlayRunning']_vars

\* the <video> reported an error after handlePlay had started the playback
C12_Witness ==
    /\ error = "Video playback error" /\ ~isPlaying
    /\ \E k \in 1 .. Len(plays) : plays[k].out = "started"
    /\ ~loadingPlayback

\* C13: once the video has played to its end while the player is shown, the
\* controller eventually is not playing and has no playbackSrc.
C13_EndedReturnsToIdle ==
    (isPlaying /\ vid.ended) ~> (~isPlaying /\ playbackSrc = NoSrc)

\* C14: when vid.play() is rejected while the player is shown, the player
\* stays shown with autoplayBlocked set, the same playbackSrc and no error
\* set by it; a Tap to Play that starts the playback clears autoplayBlocked
\* and leaves the player shown.
C14_AutoplayBlockedStaysPlaying ==
    [][/\ \A k \in 1 .. Len(plays) :
            (isPlaying /\ plays[k].pc = "play" /\ plays'[k].out = "blocked")
                => /\ isPlaying' /\ autoplayBlocked'
                   /\ playbackSrc' = playbackSrc /\ error' = error
       /\ (TapToPlay /\ ~autoplayBlocked') =>
              /\ isPlaying'
              /\ playbackSrc' = playbackSrc /\ error' = error]_vars

\* the autoplay of the only handlePlay was blocked and a tap has started the
\* playback
C14_Witness ==
    /\ Len(plays) = 1 /\ plays[1].out = "blocked"
    /\ isPlaying /\ ~autoplayBlocked /\ error = ""

----------------------------------------------------------------------------
(* Capture and network claims *)

\* An upload of a capture has not completed.
UploadInFlight == \E k \in 1 .. Len(caps) : caps[k].pc = "upload"

\* C15: while an earlier upload has not completed, a capture can be
\* requested: with the camera running and the build-mode controls shown, the
\* Capture button accepts a click.
C15_UploadDoesNotBlockCapture ==
    (UploadInFlight /\ BuildMode /\ streamReady) => CaptureEnabled

\* This step is a handleUndo or a handleResetAll sending its DELETE and
\* getting the backend's answer.
UndoApplied == (undos' > undos /\ undoFs' = undoFs) \/ undoFs' < undoFs
ResetApplied == (resets' > resets /\ resetFs' = resetFs) \/ resetFs' < resetFs

\* C16: when the backend fails a capture upload, an undo, a reset or a
\* build (network error or a status that is not a success; a 404 answer to
\* the reset counts as nothing to do), the error is set, and nothing is
\* thrown out of the handler.
C16_BackendFailureSetsError ==
    [][/\ \A k \in 1 .. Len(caps) :
            (caps[k].pc = "upload" /\ caps'[k].out = "failed") => error' # ""
       /\ \A k \in 1 .. Len(plays) :
            (plays[k].pc = "build" /\ BuildFailed(plays'[k])) => error' # ""
       /\ (UndoApplied \/ ResetApplied) =>
              /\ ~lastNet'.thrown
              /\ lastNet'.failed => error' # ""]_vars

\* C17: a reset empties the local sequence whatever the backend answers; a
\* 404 to the session-scoped DELETE /api/frames/all is followed by exactly
\* one DELETE without the session parameter, any other answer by none; and
\* a 404 to the fallback is not a failure: nothing is thrown and the error
\* is left as it is.
C17_ResetTolerates404 ==
    [][ResetApplied =>
          /\ thumbnails' = <<>>
          /\ lastNet'.op = "reset"
          /\ lastNet'.calls = IF lastNet'.statuses[1] = 404
                              THEN <<"session", "global">>
                              ELSE <<"session">>
          /\ Len(lastNet'.statuses) = Len(lastNet'.calls)
          /\ lastNet'.statuses = <<404, 404>> =>
                ~lastNet'.failed /\ ~lastNet'.thrown /\ error' = error]_vars

\* a confirmed frame was in the sequence, and a reset that got 404 from both
\* endpoints has emptied it
C17_Witness ==
    /\ lastNet.op = "reset" /\ lastNet.statuses = <<404, 404>>
    /\ Len(caps) = 1 /\ caps[1].out = "confirmed"
    /\ resetCap = -1 /\ undos = 0
    /\ thumbnails = <<>> /\ error = ""

----------------------------------------------------------------------------
(* Firmware claims: bounce and independence *)

\* C18: in a pass that comes less than DEBOUNCE_MS after the button's last
\* raw change, its debounced level does not change and it prints nothing;
\* and a burst of raw changes less than DEBOUNCE_MS apart that started from
\* idle and ended released (a press shorter than the window is the shortest
\* one) has printed nothing and left the debounced level HIGH.
C18_BounceIsInvisible ==
    [][\A i \in Btn :
          /\ ms' - since'[i] < DEBOUNCE_MS =>
                /\ buttons'[i].stableState = buttons[i].stableState
                /\ buttons'[i].lastStableState = buttons[i].lastStableState
                /\ Count(i, serialOut') = Count(i, serialOut)
          /\ (ep'[i].rapid /\ buttons'[i].lastRaw = HIGH) =>
                /\ ep'[i].tokens = 0
                /\ buttons'[i].stableState = HIGH]_vars

\* a press shorter than the window was released at least a window ago, and
\* nothing has been printed
C18_Witness ==
    /\ ep[0].rapid /\ ep[0].n = 2
    /\ buttons[0].lastRaw = HIGH /\ HeldMs(0) >= DEBOUNCE_MS
    /\ serialOut = <<>>

\* The buttons whose debounced level goes HIGH -> LOW in this pass, from
\* button i on, in index order.
RECURSIVE WentLow(_)
WentLow(i) ==
    IF i >= BTN_COUNT THEN <<>>
    ELSE (IF buttons[i].stableState = HIGH /\ buttons'[i].stableState = LOW
          THEN <<command[i]>> ELSE <<>>) \o WentLow(i + 1)

\* C19: in every pass each button's fields change as its own raw level and
\* its own timer say, whatever the other buttons do: lastChangeMs changes
\* exactly with a raw change of its own; its debounced level changes
\* exactly when its own raw level differs from it and has been held for
\* DEBOUNCE_MS, and then lastStableState takes the old level; and the pass
\* prints exactly the commands of the buttons whose debounced level went
\* HIGH -> LOW.
C19_ButtonsIndependent ==
    [][/\ \A i \in Btn :
            LET b == buttons[i]
                c == buttons'[i]
                held == ms' - since'[i]
            IN  /\ c.lastChangeMs = IF c.lastRaw = b.lastRaw
                                     THEN b.lastChangeMs ELSE millis(ms')
                /\ IF c.lastRaw # b.stableState /\ held >= DEBOUNCE_MS
                   THEN /\ c.stableState = c.lastRaw
                        /\ c.lastStableState = b.stableState
                   ELSE /\ c.stableState = b.stableState
                        /\ c.lastStableState = b.lastStableState
       /\ serialOut' = serialOut \o WentLow(0)]_vars

\* one button's press has been printed while the other one is bouncing
C19_Witness ==
    /\ serialOut = <<command[2]>>
    /\ ep[0].rapid /\ ep[0].n >= 2 /\ HeldMs(0) < DEBOUNCE_MS
    /\ buttons[0].stableState = HIGH

----------------------------------------------------------------------------
(* Playback claims: the build answer *)

\* C20: the player is shown only by the step in which a build answers with
\* a video_url that is not empty, whose locator it is given; an answer with
\* a success status and a missing or empty video_url leaves the controller
\* Idle with the error set.
C20_PlayingNeedsVideoUrl ==
    [][/\ (~isPlaying /\ isPlaying') =>
              \E k \in 1 .. Len(plays) :
                  /\ plays[k].pc = "build" /\ plays'[k].pc = "mount"
                  /\ playbackSrc' = plays'[k].abs
                  /\ playbackSrc'[1] # NoUrl
                  /\ LocatorOf(playbackSrc', k, dateNow')
       /\ \A k \in 1 .. Len(plays) :
              (plays[k].pc = "build" /\ plays'[k].out = "nourl") =>
                  /\ Idle'
                  /\ error' = "Playback failed"]_vars

\* the only build answered without a video_url
C20_Witness ==
    /\ Len(plays) = 1 /\ plays[1].out = "nourl"
    /\ Idle /\ error = "Playback failed"

----------------------------------------------------------------------------
(* Film-roll claims: undo against uploads, the sequence's length *)

\* The frame of capture k (its placeholder or its confirmed frame) is in seq.
InRoll(k, seq) == \E i \in 1 .. Len(seq) : CapOf(seq[i]) = k

\* C21: a frame that undo has removed does not come back: once the
\* placeholder of a capture whose upload is in flight is gone from the
\* sequence, no later step puts that capture's frame into it.
C21_UndoneFrameStaysOut ==
    [][\A k \in 1 .. Len(caps) :
          (caps[k].pc = "upload" /\ ~InRoll(k, thumbnails))
              => ~InRoll(k, thumbnails')]_vars

----------------------------------------------------------------------------
(* Playback claims: isPlaying and playbackSrc *)

\* C22: the player is shown only with a playbackSrc that is not empty, and
\* every step that hides the player clears playbackSrc.
C22_PlayingHasSource ==
    /\ [](isPlaying => playbackSrc # NoSrc)
    /\ [][(isPlaying /\ ~isPlaying') => playbackSrc' = NoSrc]_vars

\* the playback had started and the player was hidden without an error
\* (fullscreen was left)
C22_Witness ==
    /\ Len(plays) = 1 /\ plays[1].out = "started"
    /\ ~isPlaying /\ playbackSrc = NoSrc /\ error = ""

\* C23: the sequence never holds more than MaxThumbs entries; a capture made
\* on a full sequence puts its placeholder at the front and drops the last
\* entry, and its confirmed frame takes the front in the placeholder's
\* place with the sequence still full.
C23_AtMostThirty ==
    /\ [](Len(thumbnails) <= MaxThumbs)
    /\ [][\A k \in 1 .. Len(caps) :
             Len(thumbnails) = MaxThumbs =>
               /\ (caps[k].pc = "blob" /\ caps'[k].pc = "upload") =>
                     /\ thumbnails'[1].url = BlobUrl(k)
                     /\ Tail(thumbnails') = SubSeq(thumbnails, 1, MaxThumbs - 1)
               /\ (caps[k].pc = "upload" /\ caps'[k].out = "confirmed") =>
                     /\ thumbnails'[1].url = resolveUrl(ThumbUrl(k))
                     /\ Len(thumbnails') = MaxThumbs
                     /\ Tail(thumbnails') =
                           SelectSeq(thumbnails,
                                     LAMBDA t : t.url # BlobUrl(k))]_vars

\* thirty-one captures in a row: the sequence is full, the newest frame is
\* at its front and the first capture's frame is gone
C23_Witness ==
    /\ undos = 0 /\ resets = 0
    /\ Len(caps) = MaxThumbs + 1 /\ caps[MaxThumbs + 1].out = "confirmed"
    /\ Len(thumbnails) = MaxThumbs
    /\ CapOf(thumbnails[1]) = MaxThumbs + 1
    /\ CapOf(thumbnails[MaxThumbs]) = 2

----------------------------------------------------------------------------
(* Busy-flag claims *)

\* Invocation k of handleCapture has set isCapturing and has not returned.
CaptureBusy(k) == Len(caps) >= k /\ caps[k].pc \in {"blob", "upload"}

\* Invocation k of handlePlay has set loadingPlayback and has not returned.
PlayBusy(k) ==
    Len(plays) >= k /\ plays[k].pc \in {"build", "mount", "meta", "play"}

\* C24: every handleCapture that has set isCapturing returns, and clears
\* the flag when it does; every handlePlay that has set loadingPlayback
\* returns, and clears the flag when it does; so neither flag stays set
\* for ever.
C24_BusyFlagsReleased ==
    /\ [][/\ \A k \in 1 .. Len(caps) :
               (CaptureBusy(k) /\ caps'[k].pc = "done") => ~isCapturing'
          /\ \A k \in 1 .. Len(plays) :
               (PlayBusy(k) /\ plays'[k].pc = "done") => ~loadingPlayback']_vars
    /\ \A k \in 1 .. MaxBusyCaptures :
          CaptureBusy(k) ~> (Len(caps) >= k /\ caps[k].pc = "done")
    /\ \A k \in 1 .. MaxBusyPlays :
          PlayBusy(k) ~> (Len(plays) >= k /\ plays[k].pc = "done")
    /\ isCapturing ~> ~isCapturing
    /\ loadingPlayback ~> ~loadingPlayback

\* two captures have run at the same time: the upload of one failed, the
\* other one was confirmed, and the flag is clear
C24_Witness ==
    /\ Len(caps) = 2
    /\ caps[1].out = "failed" /\ caps[2].out = "confirmed"
    /\ ~isCapturing /\ ~loadingPlayback

----------------------------------------------------------------------------
(* Firmware claims: one command per press, the wrap of millis() *)

\* C25: a button prints only in a pass that it starts with its debounced
\* level HIGH and ends with it LOW, one command at most; so between two
\* commands of a button its debounced level was HIGH, and a button that is
\* held LOW keeps its debounced level LOW and prints nothing more.
C25_ReleaseBetweenTokens ==
    [][\A i \in Btn :
          /\ buttons[i].stableState = LOW =>
                Count(i, serialOut') = Count(i, serialOut)
          /\ Count(i, serialOut') # Count(i, serialOut) =>
                /\ Count(i, serialOut') = Count(i, serialOut) + 1
                /\ buttons'[i].stableState = LOW
          /\ (buttons[i].stableState = LOW /\ buttons[i].lastRaw = LOW
                /\ buttons'[i].lastRaw = LOW) =>
                buttons'[i].stableState = LOW]_vars

\* the button has been held LOW for two windows and has printed once
C25_Witness ==
    /\ buttons[0].lastRaw = LOW /\ HeldMs(0) >= 2 * DEBOUNCE_MS
    /\ changed[0]
    /\ buttons[0].stableState = LOW
    /\ serialOut = <<command[0]>>

\* The counter has wrapped between button i's last raw change and now.
Wrapped(i) == (ms \div MillisMod) # (since[i] \div MillisMod)

\* C26: when millis() has wrapped since the button's last raw change, the
\* test of line 53 still measures the time the raw level has been held: the
\* debounced level changes in exactly the passes in which the raw level
\* differs from it and has been held for DEBOUNCE_MS of true time, and the
\* command is printed in exactly those of them that accept a press.
C26_WrapIsHarmless ==
    [][\A i \in Btn :
          Wrapped(i)' =>
             LET due == /\ buttons'[i].lastRaw # buttons[i].stableState
                        /\ ms' - since'[i] >= DEBOUNCE_MS
             IN  /\ Elapsed(millis(ms'), buttons'[i].lastChangeMs)
                       = (ms' - since'[i]) % MillisMod
                 /\ (buttons'[i].stableState # buttons[i].stableState) <=> due
                 /\ Count(i, serialOut') - Count(i, serialOut) =
                       IF due /\ buttons[i].stableState = HIGH THEN 1 ELSE 0]_vars

\* a press read before the wrap was printed after it, once, and the counter
\* has not come back to the value it had at the press
C26_Witness ==
    /\ changed[0] /\ Wrapped(0) /\ ms - since[0] < MillisMod
    /\ since[0] + DEBOUNCE_MS > MillisMod
    /\ buttons[0].lastRaw = LOW /\ buttons[0].stableState = LOW
    /\ serialOut = <<command[0]>>

====
